---- MODULE Spec2Model ----
(***************************************************************************)
(* Model of scripts/main.py, the daily awareness pipeline:                 *)
(*   fetch_trending_topic -> generate_script -> create_video_from_script   *)
(*   -> post_to_instagram, orchestrated by main().                         *)
(*                                                                         *)
(* Python values: a str is a TLA+ string; an Optional[str] is a sequence   *)
(* of length at most one (None is <<>>, the string s is <<s>>); a dict is  *)
(* a record.  The process environment os.environ is a function whose       *)
(* domain is the set of variables that are set.                            *)
(*                                                                         *)
(* The module is used in one of two ways (line 285): run as a script, and  *)
(* then main() runs the four stages, or imported, and then a caller        *)
(* invokes the stages directly with arguments of its own.                  *)
(*                                                                         *)
(* Not modelled: the prompt strings (lines 69-73, 130-136), which no       *)
(* executed statement reads, the print calls of main, and failures of the  *)
(* file system itself (the output directory exists from line 44 on and     *)
(* nothing in the program removes it).                                     *)
(***************************************************************************)
EXTENDS Integers, Sequences, FiniteSets, TLC

VARIABLES environ,   \* os.environ after load_dotenv()
          name,      \* __name__ of the module: "__main__" or "main"
          pc,        \* position of the process
          locals,    \* local variables of main()
          exc,       \* the uncaught exception, if any
          files,     \* the file system: path -> content
          dirs,      \* the directories that exist
          log,       \* the stage calls made so far (all of a run / the last direct call)
          runs,      \* number of the current run of the script
          prev       \* the files as they were when the process started

vars == <<environ, name, pc, locals, exc, files, dirs, log, runs, prev>>

(***************************************************************************)
(* Bounds                                                                  *)
(***************************************************************************)
MaxRuns == 2

\* values an API credential may have in the environment
CredValues == {"", "key"}
\* values of the provider selectors
TrendValues == {"chatgpt", "perplexity", ""}
VideoValues == {"heygen", "flexclip", ""}
\* values of OUTPUT_DIR
DirValues == {"/data/"}
\* arguments of direct calls
Topics == {"", "Burnout", "Mindful breathing for anxiety management"}
Regions == {<<>>, <<"IN">>}
Scripts == {"", "Breathe."}
Paths == {"", "clip.mp4", "./outputs/daily_mental_health.mp4"}
Captions == {"", "Daily tip"}
\* content left in the output files by earlier days
StaleScript == "yesterday's script"
StaleVideo == "yesterday's video"

(***************************************************************************)
(* Python helpers                                                          *)
(***************************************************************************)
None == <<>>

Some(s) == <<s>>

\* os.getenv(key): Optional[str]
getenv(key) == IF key \in DOMAIN environ THEN Some(environ[key]) ELSE None

\* os.getenv(key, default) with a str default: str
getenv_default(key, default) == IF key \in DOMAIN environ THEN environ[key] ELSE default

\* variant: "v is None"
not_is_None(v) == v = None

\* "not v" for an Optional[str]: None and "" are falsy

not(v) == v = None \/ v = Some("")

endswith(s, suffix) ==
    /\ Len(s) >= Len(suffix)
    /\ SubSeq(s, Len(s) - Len(suffix) + 1, Len(s)) = suffix

\* os.path.join(a, b) for a relative b
path_join(a, b) == IF a = "" \/ endswith(a, "/") THEN a \o b ELSE a \o "/" \o b

\* t in s
contains(s, t) == \E i \in 1..(Len(s) - Len(t) + 1) : SubSeq(s, i, i + Len(t) - 1) = t

(***************************************************************************)
(* Configuration constants, lines 24-42                                    *)
(***************************************************************************)
CHATGPT_API_KEY == getenv("OPENAI_API_KEY")

PERPLEXITY_API_KEY == getenv("PERPLEXITY_API_KEY")

OPENAI_API_KEY == getenv("OPENAI_API_KEY")

HEYGEN_API_KEY == getenv("HEYGEN_API_KEY")

FLEXCLIP_API_KEY == getenv("FLEXCLIP_API_KEY")

INSTAGRAM_USERNAME == getenv("IG_USERNAME")

INSTAGRAM_PASSWORD == getenv("IG_PASSWORD")

OUTPUT_DIR == getenv_default("OUTPUT_DIR", "./outputs")

VIDEO_PATH == path_join(OUTPUT_DIR, "daily_mental_health.mp4")

SCRIPT_PATH == path_join(OUTPUT_DIR, "script.txt")

(***************************************************************************)
(* Outcomes of a call and the file system                                  *)
(***************************************************************************)
\* the part of the world a stage can change, with the I/O it has done
World == [files |-> files, dirs |-> dirs, io |-> <<>>]

Raise(type, msg, w) == [raised |-> TRUE, type |-> type, msg |-> msg, ret |-> None, w |-> w]

Return(v, w) == [raised |-> FALSE, type |-> "", msg |-> "", ret |-> v, w |-> w]

\* with open(path, "a") as f: f.write(data)
open_a_write(w, path, data) ==
    [w EXCEPT !.files = [p \in DOMAIN w.files \cup {path} |->
                            IF p = path
                            THEN (IF path \in DOMAIN w.files THEN w.files[path] ELSE "") \o data
                            ELSE w.files[p]],
              !.io = Append(w.io, <<"write", path>>)]

\* with open(path, "w") as f: f.write(data)   (truncates, then writes)
open_w_write(w, path, data) ==
    [w EXCEPT !.files = [p \in DOMAIN w.files \cup {path} |->
                            IF p = path THEN data ELSE w.files[p]],
              !.io = Append(w.io, <<"write", path>>)]

\* os.makedirs(path, exist_ok=True)
makedirs(w, path) ==
    [w EXCEPT !.dirs = w.dirs \cup {path},
              !.io = Append(w.io, <<"makedirs", path>>)]

(***************************************************************************)
(* 1) fetch_trending_topic, lines 49-109                                   *)
(***************************************************************************)
\* variant: an unknown source falls back to the ChatGPT topic instead of raising
fetch_trending_topic_fallback(source, region, w) ==
    IF source = "chatgpt"
    THEN IF not(CHATGPT_API_KEY)
         THEN Raise("RuntimeError", "Missing OPENAI_API_KEY for ChatGPT trending topic fetch.", w)
         ELSE Return("Mindful breathing for anxiety management", w)
    ELSE IF source = "perplexity"
    THEN IF not(PERPLEXITY_API_KEY)
         THEN Raise("RuntimeError", "Missing PERPLEXITY_API_KEY for Perplexity trending topic fetch.", w)
         ELSE Return("Journaling prompts to combat seasonal affective disorder", w)
    ELSE Return("Mindful breathing for anxiety management", w)

fetch_trending_topic(source, region, w) ==
    IF source = "chatgpt"
    THEN IF not(CHATGPT_API_KEY)
         THEN Raise("RuntimeError", "Missing OPENAI_API_KEY for ChatGPT trending topic fetch.", w)
         ELSE Return("Mindful breathing for anxiety management", w)
    ELSE IF source = "perplexity"
    THEN IF not(PERPLEXITY_API_KEY)
         THEN Raise("RuntimeError", "Missing PERPLEXITY_API_KEY for Perplexity trending topic fetch.", w)
         ELSE Return("Journaling prompts to combat seasonal affective disorder", w)
    ELSE Raise("ValueError", "source must be 'chatgpt' or 'perplexity'", w)

(***************************************************************************)
(* 2) generate_script, lines 114-162                                       *)
(***************************************************************************)
\* variant: the stub text without the topic interpolated
script_text_fixed(topic) ==
    "[Hook] Let's talk about mental health--in under a minute.\n"
    \o "Tip 1: Start with one deep breath: in for 4, out for 6.\n"
    \o "Tip 2: Name what you feel--labeling lowers intensity.\n"
    \o "Tip 3: Try a 2-minute body scan to release tension.\n"
    \o "You're not alone--progress is messy and still progress.\n"
    \o "If you're struggling, consider reaching out to a licensed professional.\n"
    \o "Follow for more daily mental health support."

\* the f-string of lines 149-157 (typographic quotes and dashes written in ASCII)
script_text(topic) ==
    "[Hook] Let's talk about " \o topic \o "--in under a minute.\n"
    \o "Tip 1: Start with one deep breath: in for 4, out for 6.\n"
    \o "Tip 2: Name what you feel--labeling lowers intensity.\n"
    \o "Tip 3: Try a 2-minute body scan to release tension.\n"
    \o "You're not alone--progress is messy and still progress.\n"
    \o "If you're struggling, consider reaching out to a licensed professional.\n"
    \o "Follow for more daily mental health support."

\* variant: the credential is checked after the script has been saved
generate_script_late_check(topic, w) ==
    LET script == script_text(topic)
        w1 == open_w_write(w, SCRIPT_PATH, script)
    IN  IF not(OPENAI_API_KEY)
        THEN Raise("RuntimeError", "Missing OPENAI_API_KEY for script generation.", w1)
        ELSE Return(script, w1)

generate_script(topic, w) ==
    IF not(OPENAI_API_KEY)
    THEN Raise("RuntimeError", "Missing OPENAI_API_KEY for script generation.", w)
    ELSE LET script == script_text(topic)
         IN  Return(script, open_w_write(w, SCRIPT_PATH, script))

(***************************************************************************)
(* 3) create_video_from_script, lines 168-231                              *)
(***************************************************************************)
\* variant: the flexclip branch tests the HeyGen key
create_video_from_script_wrong_key(script, provider, w) ==
    LET w1 == makedirs(w, OUTPUT_DIR)
    IN  IF provider = "heygen"
        THEN IF not(HEYGEN_API_KEY)
             THEN Raise("RuntimeError", "Missing HEYGEN_API_KEY for video creation.", w1)
             ELSE Return(VIDEO_PATH, open_w_write(w1, VIDEO_PATH, "FAKE_MP4_DATA"))
        ELSE IF provider = "flexclip"
        THEN IF not(HEYGEN_API_KEY)
             THEN Raise("RuntimeError", "Missing FLEXCLIP_API_KEY for video creation.", w1)
             ELSE Return(VIDEO_PATH, open_w_write(w1, VIDEO_PATH, "FAKE_MP4_DATA"))
        ELSE Raise("ValueError", "provider must be 'heygen' or 'flexclip'", w1)

create_video_from_script(script, provider, w) ==
    LET w1 == makedirs(w, OUTPUT_DIR)
    IN  IF provider = "heygen"
        THEN IF not(HEYGEN_API_KEY)
             THEN Raise("RuntimeError", "Missing HEYGEN_API_KEY for video creation.", w1)
             ELSE Return(VIDEO_PATH, open_w_write(w1, VIDEO_PATH, "FAKE_MP4_DATA"))
        ELSE IF provider = "flexclip"
        THEN IF not(FLEXCLIP_API_KEY)
             THEN Raise("RuntimeError", "Missing FLEXCLIP_API_KEY for video creation.", w1)
             ELSE Return(VIDEO_PATH, open_w_write(w1, VIDEO_PATH, "FAKE_MP4_DATA"))
        ELSE Raise("ValueError", "provider must be 'heygen' or 'flexclip'", w1)

(***************************************************************************)
(* 4) post_to_instagram, lines 237-260                                     *)
(***************************************************************************)
\* variant: the record reports the configured path, not the argument
post_to_instagram_configured_path(video_path, caption, w) ==
    IF not(INSTAGRAM_USERNAME) \/ not(INSTAGRAM_PASSWORD)
    THEN Raise("RuntimeError", "Missing IG_USERNAME/IG_PASSWORD for Instagram posting.", w)
    ELSE Return([ok |-> TRUE,
                 result |-> [message |-> "Simulated upload complete", path |-> VIDEO_PATH]], w)

post_to_instagram(video_path, caption, w) ==
    IF not(INSTAGRAM_USERNAME) \/ not(INSTAGRAM_PASSWORD)
    THEN Raise("RuntimeError", "Missing IG_USERNAME/IG_PASSWORD for Instagram posting.", w)
    ELSE Return([ok |-> TRUE,
                 result |-> [message |-> "Simulated upload complete", path |-> video_path]], w)

(***************************************************************************)
(* The record of one stage call: what was called, with what, and what it   *)
(* did                                                                     *)
(***************************************************************************)
Call(fn, args, r) ==
    [fn |-> fn, args |-> args, raised |-> r.raised, type |-> r.type, msg |-> r.msg,
     ret |-> r.ret, io |-> r.w.io]

\* the uncaught exception of a call / no exception
Exception(r) == [type |-> r.type, msg |-> r.msg]

NoException == [type |-> "", msg |-> ""]

(***************************************************************************)
(* Initial states: the module has been loaded (lines 18-44)                *)
(***************************************************************************)
CredNames == {"OPENAI_API_KEY", "PERPLEXITY_API_KEY", "HEYGEN_API_KEY", "FLEXCLIP_API_KEY",
              "IG_USERNAME", "IG_PASSWORD"}

EnvNames == CredNames \cup {"TREND_SOURCE", "VIDEO_PROVIDER", "OUTPUT_DIR"}

Optional(S) == {None} \cup {Some(s) : s \in S}

\* the environment in which each variable n has the optional value o[n]
Environ(o) == [n \in {m \in DOMAIN o : o[m] # None} |-> o[n][1]]

Init ==
    /\ name \in {"__main__", "main"}
    /\ \E creds \in [CredNames -> Optional(CredValues)],
          ts \in Optional(TrendValues), vp \in Optional(VideoValues), od \in Optional(DirValues) :
           /\ name = "main" => ts = None /\ vp = None
           /\ environ = Environ([n \in EnvNames |->
                                    IF n \in CredNames THEN creds[n]
                                    ELSE IF n = "TREND_SOURCE" THEN ts
                                    ELSE IF n = "VIDEO_PROVIDER" THEN vp
                                    ELSE od])
    /\ pc = IF name = "__main__" THEN "fetch_trending_topic" ELSE "imported"
    /\ locals = <<>>
    /\ exc = NoException
    /\ \/ files = <<>>
       \/ files = (SCRIPT_PATH :> StaleScript) @@ (VIDEO_PATH :> StaleVideo)
    /\ dirs = {OUTPUT_DIR}
    /\ log = <<>>
    /\ runs = 1
    /\ prev = files

(***************************************************************************)
(* main(), lines 266-283: one action per statement that calls a stage.     *)
(* An exception is not caught anywhere: it ends the process.               *)
(***************************************************************************)
\* variant: an exception is caught and the run goes on with an empty value
main_step_swallow(fn, args, r, var, next) ==
    /\ log' = Append(log, Call(fn, args, r))
    /\ files' = r.w.files
    /\ dirs' = r.w.dirs
    /\ pc' = next
    /\ exc' = exc
    /\ locals' = locals @@ (var :> IF r.raised THEN "" ELSE r.ret)
    /\ UNCHANGED <<environ, name, runs, prev>>

\* variant: on an exception the output files are removed before the run ends
main_step_cleanup(fn, args, r, var, next) ==
    /\ log' = Append(log, Call(fn, args, r))
    /\ dirs' = r.w.dirs
    /\ IF r.raised
       THEN /\ pc' = "aborted"
            /\ exc' = Exception(r)
            /\ locals' = locals
            /\ files' = [p \in DOMAIN r.w.files \ {SCRIPT_PATH, VIDEO_PATH} |-> r.w.files[p]]
       ELSE /\ pc' = next
            /\ exc' = exc
            /\ locals' = locals @@ (var :> r.ret)
            /\ files' = r.w.files
    /\ UNCHANGED <<environ, name, runs, prev>>

\* the effect of a stage call made by main at position pc
main_step(fn, args, r, var, next) ==
    /\ log' = Append(log, Call(fn, args, r))
    /\ files' = r.w.files
    /\ dirs' = r.w.dirs
    /\ IF r.raised
       THEN /\ pc' = "aborted"
            /\ exc' = Exception(r)
            /\ locals' = locals
       ELSE /\ pc' = next
            /\ exc' = exc
            /\ locals' = locals @@ (var :> r.ret)
    /\ UNCHANGED <<environ, name, runs, prev>>

\* line 268
main_fetch_trending_topic ==
    /\ name = "__main__" /\ pc = "fetch_trending_topic"
    /\ LET source == getenv_default("TREND_SOURCE", "chatgpt")
           region == getenv("TREND_REGION")
       IN  main_step("fetch_trending_topic", [source |-> source, region |-> region],
                     fetch_trending_topic(source, region, World), "topic", "generate_script")

\* line 272
main_generate_script ==
    /\ name = "__main__" /\ pc = "generate_script"
    /\ main_step("generate_script", [topic |-> locals["topic"]],
                 generate_script(locals["topic"], World), "script", "create_video_from_script")

\* lines 276-277
main_create_video_from_script ==
    /\ name = "__main__" /\ pc = "create_video_from_script"
    /\ LET provider == getenv_default("VIDEO_PROVIDER", "heygen")
       IN  main_step("create_video_from_script", [script |-> locals["script"], provider |-> provider],
                     create_video_from_script(locals["script"], provider, World),
                     "video_path", "post_to_instagram")

\* variant: a fixed caption
main_caption_fixed(topic) == "Daily Mental Health\n\nFollow for more supportive tips."

\* line 281
main_caption(topic) == "Daily Mental Health: " \o topic \o "\n\nFollow for more supportive tips."

\* lines 281-282
main_post_to_instagram ==
    /\ name = "__main__" /\ pc = "post_to_instagram"
    /\ LET caption == main_caption(locals["topic"])
       IN  main_step("post_to_instagram", [video_path |-> locals["video_path"], caption |-> caption],
                     post_to_instagram(locals["video_path"], caption, World), "ig_resp", "done")

\* the script is run again (a new process, the same environment and files)
rerun ==
    /\ name = "__main__" /\ pc \in {"done", "aborted"}
    /\ runs < MaxRuns
    /\ runs' = runs + 1
    /\ prev' = files
    /\ pc' = "fetch_trending_topic"
    /\ locals' = <<>>
    /\ exc' = NoException
    /\ log' = <<>>
    /\ UNCHANGED <<environ, name, files, dirs>>

(***************************************************************************)
(* The module imported: a caller invokes a stage with its own arguments.   *)
(* log holds the last call only.                                           *)
(***************************************************************************)
call_step(fn, args, r) ==
    /\ log' = <<Call(fn, args, r)>>
    /\ files' = r.w.files
    /\ dirs' = r.w.dirs
    /\ exc' = IF r.raised THEN Exception(r) ELSE NoException
    /\ UNCHANGED <<environ, name, pc, locals, runs, prev>>

call_fetch_trending_topic ==
    /\ name = "main"
    /\ \E source \in TrendValues, region \in Regions :
           call_step("fetch_trending_topic", [source |-> source, region |-> region],
                     fetch_trending_topic(source, region, World))

call_generate_script ==
    /\ name = "main"
    /\ \E topic \in Topics :
           call_step("generate_script", [topic |-> topic], generate_script(topic, World))

call_create_video_from_script ==
    /\ name = "main"
    /\ \E script \in Scripts, provider \in VideoValues :
           call_step("create_video_from_script", [script |-> script, provider |-> provider],
                     create_video_from_script(script, provider, World))

call_post_to_instagram ==
    /\ name = "main"
    /\ \E video_path \in Paths, caption \in Captions :
           call_step("post_to_instagram", [video_path |-> video_path, caption |-> caption],
                     post_to_instagram(video_path, caption, World))

Next ==
    \/ main_fetch_trending_topic
    \/ main_generate_script
    \/ main_create_video_from_script
    \/ main_post_to_instagram
    \/ rerun
    \/ call_fetch_trending_topic
    \/ call_generate_script
    \/ call_create_video_from_script
    \/ call_post_to_instagram

Spec == Init /\ [][Next]_vars

(***************************************************************************)
(* Vocabulary of the properties                                            *)
(***************************************************************************)
\* the environment variable n holds no usable value: unset, or set to ""
Absent(n) == n \notin DOMAIN environ \/ environ[n] = ""

Present(n) == n \in DOMAIN environ /\ environ[n] # ""

\* the credential variables the call c needs
Required(c) ==
    IF c.fn = "fetch_trending_topic"
    THEN IF c.args.source = "chatgpt" THEN {"OPENAI_API_KEY"}
         ELSE IF c.args.source = "perplexity" THEN {"PERPLEXITY_API_KEY"}
         ELSE {}
    ELSE IF c.fn = "generate_script" THEN {"OPENAI_API_KEY"}
    ELSE IF c.fn = "create_video_from_script"
    THEN IF c.args.provider = "heygen" THEN {"HEYGEN_API_KEY"}
         ELSE IF c.args.provider = "flexclip" THEN {"FLEXCLIP_API_KEY"}
         ELSE {}
    ELSE {"IG_USERNAME", "IG_PASSWORD"}

\* a credential the call c needs is absent
CredentialMissing(c) == \E n \in Required(c) : Absent(n)

\* the call c was given a provider selector the stage does not know
UnknownSelector(c) ==
    \/ c.fn = "fetch_trending_topic" /\ c.args.source \notin {"chatgpt", "perplexity"}
    \/ c.fn = "create_video_from_script" /\ c.args.provider \notin {"heygen", "flexclip"}

\* the paths the call c wrote to
Written(c) == {c.io[k][2] : k \in {j \in DOMAIN c.io : c.io[j][1] = "write"}}

Stages == <<"fetch_trending_topic", "generate_script", "create_video_from_script",
            "post_to_instagram">>

Pipeline == name = "__main__"

Ended == Pipeline /\ pc \in {"done", "aborted"}

(***************************************************************************)
(* C1: a stage invoked while a credential it requires is absent raises,    *)
(* returns no result, and has written neither the script file nor the      *)
(* video file.                                                             *)
(***************************************************************************)
C1_FailsBeforeActing ==
    \A i \in DOMAIN log :
        CredentialMissing(log[i]) =>
            /\ log[i].raised
            /\ log[i].ret = None
            /\ Written(log[i]) = {}

C1_Witness ==
    /\ ~Pipeline /\ Len(log) = 1
    /\ log[1].fn = "create_video_from_script" /\ log[1].args.provider = "flexclip"
    /\ CredentialMissing(log[1]) /\ log[1].raised
    /\ Present("HEYGEN_API_KEY")

(***************************************************************************)
(* C2: a run of the pipeline with every credential absent fails at the     *)
(* first stage whatever the provider selectors are: no later stage is      *)
(* started and no file is written.                                         *)
(***************************************************************************)
AllCredentialsAbsent == \A n \in CredNames : Absent(n)

C2_FailsAtFirstStage ==
    (Pipeline /\ AllCredentialsAbsent) =>
        /\ pc \in {"fetch_trending_topic", "aborted"}
        /\ Len(log) = (IF pc = "aborted" THEN 1 ELSE 0)
        /\ \A i \in DOMAIN log :
               /\ log[i].fn = "fetch_trending_topic"
               /\ log[i].raised
               /\ Written(log[i]) = {}

C2_Witness ==
    /\ Pipeline /\ AllCredentialsAbsent /\ pc = "aborted"
    /\ "TREND_SOURCE" \in DOMAIN environ /\ environ["TREND_SOURCE"] = ""
    /\ "IG_PASSWORD" \in DOMAIN environ

(***************************************************************************)
(* C3: with its credential present generate_script(T) returns text that    *)
(* contains T, and the script file then holds exactly the returned text.   *)
(***************************************************************************)
C3_ScriptContainsTopicAndIsSaved ==
    \A i \in DOMAIN log :
        (log[i].fn = "generate_script" /\ Present("OPENAI_API_KEY")) =>
            /\ ~log[i].raised
            /\ contains(log[i].ret, log[i].args.topic)
            /\ SCRIPT_PATH \in DOMAIN files
            /\ files[SCRIPT_PATH] = log[i].ret

C3_Witness ==
    /\ ~Pipeline /\ Len(log) = 1
    /\ log[1].fn = "generate_script" /\ log[1].args.topic = "Burnout"
    /\ ~log[1].raised
    /\ SCRIPT_PATH \in DOMAIN prev /\ prev[SCRIPT_PATH] = StaleScript

(***************************************************************************)
(* C4: with both Instagram credentials present post_to_instagram(P, c)     *)
(* returns a record with the success flag set and the path P unchanged;    *)
(* in a run of the pipeline P is what the video stage returned.            *)
(***************************************************************************)
C4_PublisherEchoesPath ==
    \A i \in DOMAIN log :
        (log[i].fn = "post_to_instagram" /\ Present("IG_USERNAME") /\ Present("IG_PASSWORD")) =>
            /\ ~log[i].raised
            /\ log[i].ret.ok = TRUE
            /\ log[i].ret.result.path = log[i].args.video_path
            /\ Pipeline =>
                   /\ i = 4
                   /\ log[3].fn = "create_video_from_script"
                   /\ log[i].ret.result.path = log[3].ret

C4_Witness ==
    /\ ~Pipeline /\ Len(log) = 1
    /\ log[1].fn = "post_to_instagram" /\ log[1].args.video_path = "clip.mp4"
    /\ ~log[1].raised

(***************************************************************************)
(* C5: a successful run overwrites the script file and the video file,     *)
(* whatever an earlier run left in them: each holds exactly what this run  *)
(* wrote, and after a second run the files are what the run before it      *)
(* left.                                                                   *)
(***************************************************************************)
C5_SecondRunOverwrites ==
    (Pipeline /\ pc = "done") =>
        /\ {SCRIPT_PATH, VIDEO_PATH} \subseteq DOMAIN files
        /\ files[SCRIPT_PATH] = log[2].ret
        /\ files[VIDEO_PATH] = "FAKE_MP4_DATA"
        /\ runs >= 2 => files = prev

C5_Witness ==
    /\ Pipeline /\ runs = 2 /\ pc = "done"
    /\ log[1].args.source = "chatgpt"

(***************************************************************************)
(* C6: in a run the stages are called in the fixed order, each only after  *)
(* the one before it has returned; nothing is called after a failure.      *)
(***************************************************************************)
C6_StrictSequence ==
    Pipeline =>
        /\ Len(log) <= 4
        /\ \A i \in DOMAIN log :
               /\ log[i].fn = Stages[i]
               /\ i < Len(log) => ~log[i].raised
        /\ pc \in {Stages[k] : k \in 1..4} => (Len(log) < 4 /\ pc = Stages[Len(log) + 1])
        /\ pc = "done" => (Len(log) = 4 /\ ~log[4].raised)
        /\ pc = "aborted" => (Len(log) >= 1 /\ log[Len(log)].raised)

C6_Witness ==
    /\ Pipeline /\ pc = "done" /\ Len(log) = 4
    /\ log[1].args.source = "perplexity"

(***************************************************************************)
(* C7 (as stated): each stage's output is the next stage's sole input; in  *)
(* particular what the publisher is given depends on the video stage's     *)
(* output only, so it is the same whichever topic the first stage          *)
(* produced.                                                               *)
(***************************************************************************)
SourceTopics == {"Mindful breathing for anxiety management",
                 "Journaling prompts to combat seasonal affective disorder"}

C7_PublisherInputFromVideoOnly ==
    (Pipeline /\ Len(log) = 4) =>
        \A t \in SourceTopics :
            log[4].args = [video_path |-> log[3].ret,
                           caption |-> "Daily Mental Health: " \o t
                                       \o "\n\nFollow for more supportive tips."]

(***************************************************************************)
(* C7 (amended): the script generator is given the topic only, the video   *)
(* synthesizer the script and the configured provider, and the publisher   *)
(* the path returned by the video stage together with a caption built      *)
(* from the topic of the first stage.                                      *)
(***************************************************************************)
C7_StageInputs ==
    Pipeline =>
        /\ Len(log) >= 2 => log[2].args = [topic |-> log[1].ret]
        /\ Len(log) >= 3 =>
               log[3].args = [script |-> log[2].ret,
                              provider |-> IF "VIDEO_PROVIDER" \in DOMAIN environ
                                           THEN environ["VIDEO_PROVIDER"] ELSE "heygen"]
        /\ Len(log) >= 4 =>
               log[4].args = [video_path |-> log[3].ret,
                              caption |-> "Daily Mental Health: " \o log[1].ret
                                          \o "\n\nFollow for more supportive tips."]

C7_Witness ==
    /\ Pipeline /\ Len(log) = 4
    /\ log[1].ret = "Journaling prompts to combat seasonal affective disorder"
    /\ contains(log[4].args.caption, "Journaling prompts")

(***************************************************************************)
(* C8 (as stated): a run that aborts has ended in the missing-credential   *)
(* error of the stage that failed.                                         *)
(***************************************************************************)
C8_OnlyMissingCredential ==
    (Pipeline /\ pc = "aborted") =>
        /\ exc.type = "RuntimeError"
        /\ CredentialMissing(log[Len(log)])

(***************************************************************************)
(* C8 (amended): a stage of a run fails either with the missing-credential *)
(* error of that stage (a RuntimeError naming the variables), or, when its *)
(* provider selector is neither of the two known values, with the          *)
(* ValueError of the topic or video stage; the error is not caught and     *)
(* the run aborts with it.                                                 *)
(***************************************************************************)
C8_ErrorKinds ==
    Pipeline =>
        /\ \A i \in DOMAIN log :
               log[i].raised =>
                   /\ i = Len(log)
                   /\ pc = "aborted"
                   /\ exc = [type |-> log[i].type, msg |-> log[i].msg]
                   /\ \/ /\ log[i].type = "RuntimeError"
                         /\ CredentialMissing(log[i])
                         /\ \A n \in Required(log[i]) : contains(log[i].msg, n)
                      \/ /\ log[i].type = "ValueError"
                         /\ UnknownSelector(log[i])
        /\ pc = "aborted" => (Len(log) >= 1 /\ log[Len(log)].raised)
        /\ pc # "aborted" => exc = NoException

C8_Witness ==
    /\ Pipeline /\ pc = "aborted" /\ Len(log) = 3
    /\ exc.type = "ValueError"

(***************************************************************************)
(* C9: in a run each stage is attempted at most once, and when a stage     *)
(* fails the files are as the completed stages wrote them: all as at the   *)
(* start if the first or second stage failed, the new script in place if   *)
(* the video stage failed, the new script and video if the publisher       *)
(* failed.                                                                 *)
(***************************************************************************)
C9_NoRetryNoRecovery ==
    Pipeline =>
        /\ \A i, j \in DOMAIN log : log[i].fn = log[j].fn => i = j
        /\ pc = "aborted" =>
               files = IF Len(log) <= 2 THEN prev
                       ELSE IF Len(log) = 3 THEN (SCRIPT_PATH :> log[2].ret) @@ prev
                       ELSE (SCRIPT_PATH :> log[2].ret) @@ (VIDEO_PATH :> "FAKE_MP4_DATA") @@ prev

C9_Witness ==
    /\ Pipeline /\ pc = "aborted" /\ Len(log) = 4
    /\ SCRIPT_PATH \in DOMAIN prev /\ prev[SCRIPT_PATH] = StaleScript
    /\ files[SCRIPT_PATH] # StaleScript /\ files[VIDEO_PATH] # StaleVideo

(***************************************************************************)
(* C10: a run completes all four stages and has the publisher's success    *)
(* record exactly when the selected trend provider is known and its        *)
(* credential non-empty, OPENAI_API_KEY is non-empty, the selected video   *)
(* provider is known and its credential non-empty, and IG_USERNAME and     *)
(* IG_PASSWORD are non-empty; credentials of providers not selected play   *)
(* no part, and a run with trend selector 'chatgpt' never fails at the     *)
(* script stage.                                                           *)
(***************************************************************************)
TrendSelector == IF "TREND_SOURCE" \in DOMAIN environ THEN environ["TREND_SOURCE"] ELSE "chatgpt"

VideoSelector == IF "VIDEO_PROVIDER" \in DOMAIN environ THEN environ["VIDEO_PROVIDER"] ELSE "heygen"

CanComplete ==
    /\ \/ TrendSelector = "chatgpt" /\ Present("OPENAI_API_KEY")
       \/ TrendSelector = "perplexity" /\ Present("PERPLEXITY_API_KEY")
    /\ Present("OPENAI_API_KEY")
    /\ \/ VideoSelector = "heygen" /\ Present("HEYGEN_API_KEY")
       \/ VideoSelector = "flexclip" /\ Present("FLEXCLIP_API_KEY")
    /\ Present("IG_USERNAME")
    /\ Present("IG_PASSWORD")

C10_CompletesIffConfigured ==
    Ended =>
        /\ (pc = "done") <=> CanComplete
        /\ pc = "done" => (Len(log) = 4 /\ locals["ig_resp"] = log[4].ret /\ log[4].ret.ok = TRUE)
        /\ TrendSelector = "chatgpt" => ~(pc = "aborted" /\ Len(log) = 2)

C10_Witness ==
    /\ Ended /\ pc = "done"
    /\ TrendSelector = "perplexity" /\ VideoSelector = "flexclip"
    /\ "HEYGEN_API_KEY" \notin DOMAIN environ

====
